---- MODULE Spec2Model ----
(***************************************************************************)
(* Object-lifetime tracking core of the object_tracker validation layer    *)
(* (layers/object_lifetime_validation.h): the per-owner object registry,   *)
(* its counters, and the Create / Validate / ValidateDestroy / Destroy     *)
(* operations.                                                             *)
(***************************************************************************)
EXTENDS Integers, Sequences, FiniteSets, TLC

(***************************************************************************)
(* Bound of the model.                                                     *)
(***************************************************************************)
\* object_track_index is a uint64_t that only grows: creations stop at MaxIndex
MaxIndex == 2

(***************************************************************************)
(* Program constants.                                                      *)
(***************************************************************************)
VK_NULL_HANDLE == 0

kVUID_ObjectTracker_Info == "UNASSIGNED-ObjectTracker-Info"
kVUID_ObjectTracker_ObjectLeak == "UNASSIGNED-ObjectTracker-ObjectLeak"
kVUID_ObjectTracker_UnknownObject == "UNASSIGNED-ObjectTracker-UnknownObject"
kVUIDUndefined == "VUID_Undefined"

kVulkanObjectTypeImage == "Image"
kVulkanObjectTypeSurfaceKHR == "SurfaceKHR"

VK_DEBUG_REPORT_INFORMATION_BIT_EXT == "INFORMATION"
VK_DEBUG_REPORT_ERROR_BIT_EXT == "ERROR"

\* ObjTrackState::status flags, as sets of flag names (status & FLAG is membership)
OBJSTATUS_NONE == {}
OBJSTATUS_CUSTOM_ALLOCATOR == {"CUSTOM_ALLOCATOR"}

(***************************************************************************)
(* Input domains.                                                          *)
(***************************************************************************)
\* dispatchable objects (devices) that own a layer_data in layer_data_map
Owners == {"D1", "D2"}
\* object categories passed to the templates (kVulkanObjectTypeDevice is routed
\* to ValidateDeviceObject and is not stored in a device's own registry)
Types == {kVulkanObjectTypeImage, kVulkanObjectTypeSurfaceKHR}
\* handle values: the null handle and one non-null value
Handles == {VK_NULL_HANDLE, 1}
\* the device and the image handles that CreateSwapchainImageObject is called with
SwapchainOwners == {"D1"}
SwapchainImages == {1}
\* (invalid_handle_code, wrong_device_code) pairs passed by call sites
UseSites == { <<"VUID-parameter", "VUID-parent">>,
              <<kVUID_ObjectTracker_UnknownObject, kVUIDUndefined>> }
\* (expected_custom_allocator_code, expected_default_allocator_code) pairs
DestroySites == { <<"VUID-custom", "VUID-default">>,
                  <<kVUIDUndefined, "VUID-default">>,
                  <<"VUID-custom", kVUIDUndefined>> }
\* error_code values passed to ReportUndestroyedObjects by its call sites
TeardownSites == { kVUID_ObjectTracker_ObjectLeak, "VUID-vkDestroyDevice-device" }

VARIABLES
    layer_data_map,     \* the owners that currently have a layer_data
    object_map,         \* object_map[o][t] : handle -> ObjTrackState
    swapchainImageMap,  \* swapchainImageMap[o] : set of swapchain image handles
    num_objects,        \* num_objects[o][t]
    num_total_objects,  \* num_total_objects[o]
    object_track_index, \* global sequence number of CREATE messages
    aborted,            \* an assert has failed
    last,               \* the most recent call and its arguments
    ret,                \* what the most recent call returned
    emitted,            \* the diagnostics the most recent call passed to log_msg
    probe,              \* the (owner, category, handle) whose call history is kept
    hist,               \* the Create/Destroy call history of probe
    global_lock,        \* the thread holding the process-wide lock, or "free"
    thread              \* thread[th] : the call a thread is in and its position

registry == << layer_data_map, object_map, swapchainImageMap, num_objects,
               num_total_objects >>

callVars == << last, ret, emitted >>

threadVars == << global_lock, thread >>

vars == << layer_data_map, object_map, swapchainImageMap, num_objects,
           num_total_objects, object_track_index, aborted, last, ret, emitted,
           probe, hist, global_lock, thread >>

(***************************************************************************)
(* Helpers: std::unordered_map operations and log_msg.                     *)
(***************************************************************************)
\* m.count(k) != 0, m.find(k) != m.end()
Has(m, k) == k \in DOMAIN m

\* m[k] = v
Put(m, k, v) == [x \in (DOMAIN m) \cup {k} |-> IF x = k THEN v ELSE m[x]]

\* a broken erase that leaves the entry in the map
Erase_KeepsEntry(m, k) == m

\* m.erase(k)
Erase(m, k) == [x \in (DOMAIN m) \ {k} |-> m[x]]

EmptyMap == [x \in {} |-> {}]

\* the arguments of one log_msg call; report_data is the owner's
Msg(o, sev, t, h, code, text, nums) ==
    [report_data |-> o, severity |-> sev, object_type |-> t, handle |-> h,
     code |-> code, text |-> text, nums |-> nums]

NoCall == [op |-> "none", owner |-> "D1", object_type |-> kVulkanObjectTypeImage,
           handle |-> 0, custom_allocator |-> FALSE, null_allowed |-> FALSE,
           code1 |-> "", code2 |-> "", sink |-> <<>>]

Call(op, o, t, h, ca, na, c1, c2, sink) ==
    [op |-> op, owner |-> o, object_type |-> t, handle |-> h,
     custom_allocator |-> ca, null_allowed |-> na, code1 |-> c1, code2 |-> c2,
     sink |-> sink]

(***************************************************************************)
(* Call history of one (owner, category, handle), kept for the lifecycle   *)
(* properties.  creates / destroys count the Create calls that found the   *)
(* handle absent and the Destroy calls that removed nothing, since the     *)
(* record was last removed; creates never exceeds 1, so destroys only      *)
(* records whether it is 0.  lastEffective is the kind of the most recent  *)
(* Create call or Destroy call with a non-null handle.  removedBy is the   *)
(* operation that took the record out, while the handle stays absent.      *)
(***************************************************************************)
NoProbe == << "none", "none", 0 >>
NoHist == [creates |-> 0, destroys |-> 0, lastEffective |-> "none", removedBy |-> "none"]

HistAfterCreate(o, t, h) ==
    IF probe # << o, t, h >> THEN hist
    ELSE [creates |-> IF Has(object_map[o][t], h) THEN hist.creates ELSE hist.creates + 1,
          destroys |-> hist.destroys,
          lastEffective |-> "Create",
          removedBy |-> IF Has(object_map[o][t], h) THEN hist.removedBy ELSE "none"]

\* removed: the call, by, took the record out of the registry
HistAfterDestroy(o, t, h, removed, by) ==
    IF probe # << o, t, h >> THEN hist
    ELSE [creates |-> IF removed THEN 0 ELSE hist.creates,
          destroys |-> IF removed THEN 0 ELSE 1,
          lastEffective |-> IF h # VK_NULL_HANDLE THEN "Destroy" ELSE hist.lastEffective,
          removedBy |-> IF removed THEN by ELSE hist.removedBy]

\* the owner of the handle was torn down
HistAfterTeardown(o) ==
    IF probe[1] # o THEN hist
    ELSE [creates |-> 0, destroys |-> 0, lastEffective |-> "Teardown",
          removedBy |-> IF Has(object_map[o][probe[2]], probe[3]) THEN "Teardown"
                        ELSE hist.removedBy]

(***************************************************************************)
(* Threads of the application.                                             *)
(***************************************************************************)
Threads == {"T1", "T2"}
Idle == [pc |-> "idle", op |-> "none", owner |-> "D1", handle |-> 0,
         custom_allocator |-> FALSE, todo |-> {}, found |-> FALSE]

InitRegistry ==
    /\ layer_data_map = Owners
    /\ object_map = [o \in Owners |-> [t \in Types |-> EmptyMap]]
    /\ swapchainImageMap = [o \in Owners |-> {}]
    /\ num_objects = [o \in Owners |-> [t \in Types |-> 0]]
    /\ num_total_objects = [o \in Owners |-> 0]
    /\ object_track_index = 0
    /\ aborted = FALSE
    /\ last = NoCall
    /\ ret = FALSE
    /\ emitted = <<>>
    /\ hist = NoHist
    /\ global_lock = "free"
    /\ thread = [th \in Threads |-> Idle]

Init ==
    /\ InitRegistry
    /\ probe = NoProbe

(***************************************************************************)
(* CreateObject (lines 147-170).                                           *)
(***************************************************************************)
\* a record that never notes the custom allocator
NewObjNode_NeverCustom(t, h, custom_allocator) ==
    [object_type |-> t, status |-> {}, handle |-> h]

\* the record built at lines 161-164
NewObjNode(t, h, custom_allocator) ==
    [object_type |-> t,
     status |-> IF custom_allocator THEN OBJSTATUS_CUSTOM_ALLOCATOR ELSE OBJSTATUS_NONE,
     handle |-> h]

\* an insertion that forgets num_total_objects++
CreateInsert_NoTotal(o, t, h, custom_allocator) ==
    /\ object_map' = [object_map EXCEPT ![o][t] = Put(@, h, NewObjNode(t, h, custom_allocator))]
    /\ num_objects' = [num_objects EXCEPT ![o][t] = @ + 1]
    /\ num_total_objects' = num_total_objects

\* an insertion into one object_lifetime shared by all devices
CreateInsert_AllOwners(o, t, h, custom_allocator) ==
    /\ object_map' = [x \in Owners |->
                         [object_map[x] EXCEPT ![t] = Put(@, h, NewObjNode(t, h, custom_allocator))]]
    /\ num_objects' = [x \in Owners |->
                         [num_objects[x] EXCEPT ![t] = Cardinality(DOMAIN object_map'[x][t])]]
    /\ num_total_objects' = [x \in Owners |->
                         num_total_objects[x] + num_objects'[x][t] - num_objects[x][t]]

\* lines 166-168: the insertion and the two counters
CreateInsert(o, t, h, custom_allocator) ==
    /\ object_map' = [object_map EXCEPT ![o][t] = Put(@, h, NewObjNode(t, h, custom_allocator))]
    /\ num_objects' = [num_objects EXCEPT ![o][t] = @ + 1]
    /\ num_total_objects' = [num_total_objects EXCEPT ![o] = @ + 1]

\* a post-increment that leaves the counter where it was
NextTrackIndex_Stuck(i) == i

\* line 158: object_track_index++ leaves this value in the counter
NextTrackIndex(i) == i + 1

CreateObject(o, t, h, custom_allocator) ==
    /\ ~aborted
    /\ o \in layer_data_map
    /\ last' = Call("CreateObject", o, t, h, custom_allocator, FALSE, "", "", <<>>)
    /\ ret' = FALSE
    /\ IF ~Has(object_map[o][t], h)
       THEN /\ object_track_index < MaxIndex
            /\ emitted' = << Msg(o, VK_DEBUG_REPORT_INFORMATION_BIT_EXT, t, h,
                                 kVUID_ObjectTracker_Info, "CREATE",
                                 <<object_track_index>>) >>
            /\ object_track_index' = NextTrackIndex(object_track_index)
            /\ CreateInsert(o, t, h, custom_allocator)
       ELSE /\ emitted' = <<>>
            /\ UNCHANGED << object_map, num_objects, num_total_objects,
                            object_track_index >>
    /\ hist' = HistAfterCreate(o, t, h)
    /\ UNCHANGED << layer_data_map, swapchainImageMap, aborted, probe, threadVars >>

(***************************************************************************)
(* DestroyObjectSilently (lines 172-192) and RecordDestroyObject           *)
(* (lines 235-247).                                                        *)
(***************************************************************************)
\* a version without the erase of line 191
SilentBody_KeepsRecord(o, t, h) ==
    IF h = VK_NULL_HANDLE \/ ~Has(object_map[o][t], h) \/ num_total_objects[o] <= 0
    THEN /\ aborted' = TRUE
         /\ UNCHANGED << object_map, num_objects, num_total_objects >>
    ELSE /\ aborted' = (num_objects[o][object_map[o][t][h].object_type] <= 0)
         /\ num_total_objects' = [num_total_objects EXCEPT ![o] = @ - 1]
         /\ num_objects' = IF aborted' THEN num_objects
                           ELSE [num_objects EXCEPT ![o][object_map[o][t][h].object_type] = @ - 1]
         /\ object_map' = object_map

\* a version without the assert of line 177
SilentBody_NullUnchecked(o, t, h) ==
    IF ~Has(object_map[o][t], h) \/ num_total_objects[o] <= 0
    THEN /\ aborted' = TRUE
         /\ UNCHANGED << object_map, num_objects, num_total_objects >>
    ELSE /\ aborted' = FALSE
         /\ num_total_objects' = [num_total_objects EXCEPT ![o] = @ - 1]
         /\ num_objects' = [num_objects EXCEPT ![o][object_map[o][t][h].object_type] = @ - 1]
         /\ object_map' = [object_map EXCEPT ![o][t] = Erase(@, h)]

\* lines 177-191: the state change of DestroyObjectSilently; a failed assert
\* aborts the process at that point
SilentBody(o, t, h) ==
    IF h = VK_NULL_HANDLE \/ ~Has(object_map[o][t], h) \/ num_total_objects[o] <= 0
    THEN /\ aborted' = TRUE
         /\ UNCHANGED << object_map, num_objects, num_total_objects >>
    ELSE LET pNode == object_map[o][t][h] IN
         IF num_objects[o][pNode.object_type] <= 0
         THEN /\ aborted' = TRUE
              /\ num_total_objects' = [num_total_objects EXCEPT ![o] = @ - 1]
              /\ UNCHANGED << object_map, num_objects >>
         ELSE /\ aborted' = FALSE
              /\ num_total_objects' = [num_total_objects EXCEPT ![o] = @ - 1]
              /\ num_objects' = [num_objects EXCEPT ![o][pNode.object_type] = @ - 1]
              /\ object_map' = [object_map EXCEPT ![o][t] = Erase(@, h)]

DestroyObjectSilently(o, t, h) ==
    /\ ~aborted
    /\ o \in layer_data_map
    /\ last' = Call("DestroyObjectSilently", o, t, h, FALSE, FALSE, "", "", <<>>)
    /\ ret' = FALSE
    /\ emitted' = <<>>
    /\ SilentBody(o, t, h)
    /\ hist' = IF aborted' THEN hist
               ELSE HistAfterDestroy(o, t, h, Has(object_map[o][t], h)
                                              /\ ~Has(object_map'[o][t], h),
                                     "DestroyObjectSilently")
    /\ UNCHANGED << layer_data_map, swapchainImageMap, object_track_index, probe,
                    threadVars >>

\* a version without the tests of lines 241 and 243
RecordDestroyObject_Unguarded(o, t, h) ==
    /\ ~aborted
    /\ o \in layer_data_map
    /\ last' = Call("RecordDestroyObject", o, t, h, FALSE, FALSE, "", "", <<>>)
    /\ ret' = FALSE
    /\ emitted' = <<>>
    /\ SilentBody(o, t, h)
    /\ hist' = IF aborted' THEN hist
               ELSE HistAfterDestroy(o, t, h, Has(object_map[o][t], h)
                                              /\ ~Has(object_map'[o][t], h),
                                     "RecordDestroyObject")
    /\ UNCHANGED << layer_data_map, swapchainImageMap, object_track_index, probe,
                    threadVars >>

RecordDestroyObject(o, t, h) ==
    /\ ~aborted
    /\ o \in layer_data_map
    /\ last' = Call("RecordDestroyObject", o, t, h, FALSE, FALSE, "", "", <<>>)
    /\ ret' = FALSE
    /\ emitted' = <<>>
    /\ IF h # VK_NULL_HANDLE /\ Has(object_map[o][t], h)
       THEN SilentBody(o, t, h)
       ELSE UNCHANGED << object_map, num_objects, num_total_objects, aborted >>
    /\ hist' = IF aborted' THEN hist
               ELSE HistAfterDestroy(o, t, h, Has(object_map[o][t], h)
                                              /\ ~Has(object_map'[o][t], h),
                                     "RecordDestroyObject")
    /\ UNCHANGED << layer_data_map, swapchainImageMap, object_track_index, probe,
                    threadVars >>

(***************************************************************************)
(* ValidateObject (lines 72-119).                                          *)
(***************************************************************************)
\* a scan whose test at line 94 is inverted: it looks at the device itself
FoundOnOtherDevice_SelfOnly(o, t, h) ==
    \E other \in layer_data_map \cap {o} :
        \/ Has(object_map[other][t], h)
        \/ (t = kVulkanObjectTypeImage /\ h \in swapchainImageMap[other])

\* lines 93-99: the object is known to another device
FoundOnOtherDevice(o, t, h) ==
    \E other \in layer_data_map \ {o} :
        \/ Has(object_map[other][t], h)
        \/ (t = kVulkanObjectTypeImage /\ h \in swapchainImageMap[other])

\* the two log_msg calls of ValidateObject
WrongDeviceMsg(o, t, h, wrong_device_code) ==
    Msg(o, VK_DEBUG_REPORT_ERROR_BIT_EXT, t, h, wrong_device_code,
        "was not created, allocated or retrieved from the correct device", <<>>)

\* an invalid-object report that is handed the wrong code
InvalidObjectMsg_Unassigned(o, t, h, invalid_handle_code) ==
    Msg(o, VK_DEBUG_REPORT_ERROR_BIT_EXT, t, h, kVUID_ObjectTracker_UnknownObject,
        "Invalid Object", <<>>)

InvalidObjectMsg(o, t, h, invalid_handle_code) ==
    Msg(o, VK_DEBUG_REPORT_ERROR_BIT_EXT, t, h, invalid_handle_code,
        "Invalid Object", <<>>)

\* a version whose line 75 accepts the null handle whatever null_allowed is
ValidateObjectMsgs_NullAlwaysAccepted(o, h, t, null_allowed, invalid_handle_code, wrong_device_code) ==
    IF h = VK_NULL_HANDLE THEN <<>>
    ELSE IF Has(object_map[o][t], h) THEN <<>>
    ELSE IF t = kVulkanObjectTypeImage /\ h \in swapchainImageMap[o] THEN <<>>
    ELSE IF FoundOnOtherDevice(o, t, h)
         THEN IF wrong_device_code # kVUIDUndefined /\ t # kVulkanObjectTypeSurfaceKHR
              THEN << WrongDeviceMsg(o, t, h, wrong_device_code) >>
              ELSE <<>>
         ELSE << InvalidObjectMsg(o, t, h, invalid_handle_code) >>

\* a version without the swapchain image lookup of lines 90-91
ValidateObjectMsgs_NoAliasLookup(o, h, t, null_allowed, invalid_handle_code, wrong_device_code) ==
    IF null_allowed /\ h = VK_NULL_HANDLE THEN <<>>
    ELSE IF Has(object_map[o][t], h) THEN <<>>
    ELSE IF FoundOnOtherDevice(o, t, h)
         THEN IF wrong_device_code # kVUIDUndefined /\ t # kVulkanObjectTypeSurfaceKHR
              THEN << WrongDeviceMsg(o, t, h, wrong_device_code) >>
              ELSE <<>>
         ELSE << InvalidObjectMsg(o, t, h, invalid_handle_code) >>

\* the diagnostics of one ValidateObject call, in order
ValidateObjectMsgs(o, h, t, null_allowed, invalid_handle_code, wrong_device_code) ==
    IF null_allowed /\ h = VK_NULL_HANDLE THEN <<>>
    ELSE IF Has(object_map[o][t], h) THEN <<>>
    ELSE IF t = kVulkanObjectTypeImage /\ h \in swapchainImageMap[o] THEN <<>>
    ELSE IF FoundOnOtherDevice(o, t, h)
         THEN IF wrong_device_code # kVUIDUndefined /\ t # kVulkanObjectTypeSurfaceKHR
              THEN << WrongDeviceMsg(o, t, h, wrong_device_code) >>
              ELSE <<>>
         ELSE << InvalidObjectMsg(o, t, h, invalid_handle_code) >>

\* a lookup written with operator[], which default-inserts the missing key
ValidateObject_IndexInserts(o, h, t, null_allowed, site) ==
    /\ ~aborted
    /\ o \in layer_data_map
    /\ LET msgs == ValidateObjectMsgs(o, h, t, null_allowed, site[1], site[2]) IN
       \E sink \in [1..Len(msgs) -> BOOLEAN] :
       /\ emitted' = msgs
       /\ ret' = IF msgs = <<>> THEN FALSE ELSE sink[1]
       /\ last' = Call("ValidateObject", o, t, h, FALSE, null_allowed, site[1], site[2],
                       sink)
    /\ object_map' = IF null_allowed /\ h = VK_NULL_HANDLE THEN object_map
                     ELSE [object_map EXCEPT ![o][t] =
                              IF Has(@, h) THEN @ ELSE Put(@, h, NewObjNode(t, h, FALSE))]
    /\ UNCHANGED << layer_data_map, swapchainImageMap, num_objects,
                    num_total_objects, object_track_index, aborted, probe, hist,
                    threadVars >>

\* a version that asks to skip whenever it reported, whatever log_msg returned
ValidateObject_IgnoresSink(o, h, t, null_allowed, site) ==
    /\ ~aborted
    /\ o \in layer_data_map
    /\ LET msgs == ValidateObjectMsgs(o, h, t, null_allowed, site[1], site[2]) IN
       \E sink \in [1..Len(msgs) -> BOOLEAN] :
       /\ emitted' = msgs
       /\ ret' = (msgs # <<>>)
       /\ last' = Call("ValidateObject", o, t, h, FALSE, null_allowed, site[1], site[2],
                       sink)
    /\ UNCHANGED << layer_data_map, object_map, swapchainImageMap, num_objects,
                    num_total_objects, object_track_index, aborted, probe, hist,
                    threadVars >>

\* sink[i] is what log_msg returns for the i-th diagnostic of the call
ValidateObject(o, h, t, null_allowed, site) ==
    /\ ~aborted
    /\ o \in layer_data_map
    /\ LET msgs == ValidateObjectMsgs(o, h, t, null_allowed, site[1], site[2]) IN
       \E sink \in [1..Len(msgs) -> BOOLEAN] :
       /\ emitted' = msgs
       /\ ret' = IF msgs = <<>> THEN FALSE ELSE sink[1]
       /\ last' = Call("ValidateObject", o, t, h, FALSE, null_allowed, site[1], site[2],
                       sink)
    /\ UNCHANGED << layer_data_map, object_map, swapchainImageMap, num_objects,
                    num_total_objects, object_track_index, aborted, probe, hist,
                    threadVars >>

(***************************************************************************)
(* ValidateDestroyObject (lines 194-233).                                  *)
(***************************************************************************)
DestroyInfoMsg(o, t, h) ==
    Msg(o, VK_DEBUG_REPORT_INFORMATION_BIT_EXT, t, h, kVUID_ObjectTracker_Info,
        "OBJ_STAT Destroy",
        << num_total_objects[o] - 1,
           num_objects[o][object_map[o][t][h].object_type] - 1 >>)

CustomNotSpecifiedMsg(o, t, h, code) ==
    Msg(o, VK_DEBUG_REPORT_ERROR_BIT_EXT, t, h, code,
        "Custom allocator not specified while destroying", <<>>)

CustomSpecifiedMsg(o, t, h, code) ==
    Msg(o, VK_DEBUG_REPORT_ERROR_BIT_EXT, t, h, code,
        "Custom allocator specified while destroying", <<>>)

\* a version that reports a handle it does not find
ValidateDestroyObjectMsgs_ReportsMissing(o, h, t, custom_allocator, expected_custom_allocator_code, expected_default_allocator_code) ==
    IF h # VK_NULL_HANDLE /\ Has(object_map[o][t], h)
    THEN << DestroyInfoMsg(o, t, h) >>
    ELSE IF h # VK_NULL_HANDLE
    THEN << InvalidObjectMsg(o, t, h, kVUID_ObjectTracker_UnknownObject) >>
    ELSE <<>>

\* a version whose second test (line 224) checks the other direction's code
ValidateDestroyObjectMsgs_WrongGuard(o, h, t, custom_allocator, expected_custom_allocator_code, expected_default_allocator_code) ==
    IF h # VK_NULL_HANDLE /\ Has(object_map[o][t], h)
    THEN LET pNode == object_map[o][t][h]
             allocated_with_custom == OBJSTATUS_CUSTOM_ALLOCATOR \subseteq pNode.status
         IN IF allocated_with_custom /\ ~custom_allocator
               /\ expected_custom_allocator_code # kVUIDUndefined
            THEN << DestroyInfoMsg(o, t, h),
                    CustomNotSpecifiedMsg(o, t, h, expected_custom_allocator_code) >>
            ELSE IF ~allocated_with_custom /\ custom_allocator
                    /\ expected_custom_allocator_code # kVUIDUndefined
            THEN << DestroyInfoMsg(o, t, h),
                    CustomSpecifiedMsg(o, t, h, expected_default_allocator_code) >>
            ELSE << DestroyInfoMsg(o, t, h) >>
    ELSE <<>>

\* the diagnostics of one ValidateDestroyObject call, in order (lines 205-231)
ValidateDestroyObjectMsgs(o, h, t, custom_allocator, expected_custom_allocator_code, expected_default_allocator_code) ==
    IF h # VK_NULL_HANDLE /\ Has(object_map[o][t], h)
    THEN LET pNode == object_map[o][t][h]
             allocated_with_custom == OBJSTATUS_CUSTOM_ALLOCATOR \subseteq pNode.status
         IN IF allocated_with_custom /\ ~custom_allocator
               /\ expected_custom_allocator_code # kVUIDUndefined
            THEN << DestroyInfoMsg(o, t, h),
                    CustomNotSpecifiedMsg(o, t, h, expected_custom_allocator_code) >>
            ELSE IF ~allocated_with_custom /\ custom_allocator
                    /\ expected_default_allocator_code # kVUIDUndefined
            THEN << DestroyInfoMsg(o, t, h),
                    CustomSpecifiedMsg(o, t, h, expected_default_allocator_code) >>
            ELSE << DestroyInfoMsg(o, t, h) >>
    ELSE <<>>

\* skip is the OR of what log_msg returned for each diagnostic
ValidateDestroyObject(o, h, t, custom_allocator, site) ==
    /\ ~aborted
    /\ o \in layer_data_map
    /\ LET msgs == ValidateDestroyObjectMsgs(o, h, t, custom_allocator, site[1], site[2]) IN
       \E sink \in [1..Len(msgs) -> BOOLEAN] :
       /\ emitted' = msgs
       /\ ret' = (\E i \in 1..Len(msgs) : sink[i])
       /\ last' = Call("ValidateDestroyObject", o, t, h, custom_allocator, FALSE,
                       site[1], site[2], sink)
    /\ UNCHANGED << layer_data_map, object_map, swapchainImageMap, num_objects,
                    num_total_objects, object_track_index, aborted, probe, hist,
                    threadVars >>

(***************************************************************************)
(* CreateSwapchainImageObject (declared at line 67): the image becomes a   *)
(* member of the device's swapchain image map; it is not counted.          *)
(***************************************************************************)
CreateSwapchainImageObject(o, h) ==
    /\ ~aborted
    /\ o \in layer_data_map
    /\ swapchainImageMap' = [swapchainImageMap EXCEPT ![o] = @ \cup {h}]
    /\ last' = Call("CreateSwapchainImageObject", o, kVulkanObjectTypeImage, h,
                    FALSE, FALSE, "", "", <<>>)
    /\ ret' = FALSE
    /\ emitted' = <<>>
    /\ UNCHANGED << layer_data_map, object_map, num_objects, num_total_objects,
                    object_track_index, aborted, probe, hist, threadVars >>

(***************************************************************************)
(* Teardown of a device (ReportUndestroyedObjects, DestroyUndestroyedObjects,*)
(* declared at lines 59-60 and 68-69): every object still in the registry  *)
(* is reported as a leak, category by category, every bucket is emptied,   *)
(* and the device's layer_data leaves layer_data_map.                      *)
(***************************************************************************)
\* the handles of a bucket as a sequence, smallest first
RECURSIVE HandlesInOrder(_)
HandlesInOrder(S) ==
    IF S = {} THEN <<>>
    ELSE LET h == CHOOSE x \in S : \A y \in S : x <= y
         IN << h >> \o HandlesInOrder(S \ {h})

LeakMsg(o, t, h, error_code) ==
    Msg(o, VK_DEBUG_REPORT_ERROR_BIT_EXT, t, h, error_code,
        "has not been destroyed", <<>>)

\* a report that drops the leaked objects silently
DeviceReportUndestroyedObjects_Silent(o, t, error_code) == <<>>

\* the leak diagnostics of one category: one per leaked object
DeviceReportUndestroyedObjects(o, t, error_code) ==
    IF num_objects[o][t] > 0
    THEN LET hs == HandlesInOrder(DOMAIN object_map[o][t])
         IN [i \in 1..Len(hs) |-> LeakMsg(o, t, hs[i], error_code)]
    ELSE <<>>

\* the categories in the order the teardown visits them
TypeOrder == << kVulkanObjectTypeImage, kVulkanObjectTypeSurfaceKHR >>

ReportUndestroyedObjects(o, error_code) ==
    DeviceReportUndestroyedObjects(o, TypeOrder[1], error_code)
        \o DeviceReportUndestroyedObjects(o, TypeOrder[2], error_code)

\* every bucket is emptied and the records are released
DestroyUndestroyedObjects(o) ==
    /\ object_map' = [object_map EXCEPT ![o] = [t \in Types |-> EmptyMap]]
    /\ num_objects' = [num_objects EXCEPT ![o] = [t \in Types |-> 0]]
    /\ num_total_objects' = [num_total_objects EXCEPT ![o] = 0]

\* skip is what the report returned: the OR of log_msg's results
Teardown(o, error_code) ==
    /\ ~aborted
    /\ o \in layer_data_map
    /\ LET msgs == ReportUndestroyedObjects(o, error_code) IN
       \E skip \in IF msgs = <<>> THEN {FALSE} ELSE BOOLEAN :
       /\ emitted' = msgs
       /\ ret' = skip
       /\ last' = Call("DestroyDevice", o, kVulkanObjectTypeImage, VK_NULL_HANDLE,
                       FALSE, FALSE, error_code, "", <<>>)
    /\ DestroyUndestroyedObjects(o)
    /\ swapchainImageMap' = [swapchainImageMap EXCEPT ![o] = {}]
    /\ layer_data_map' = layer_data_map \ {o}
    /\ hist' = HistAfterTeardown(o)
    /\ UNCHANGED << object_track_index, aborted, probe, threadVars >>

(***************************************************************************)
(* Sequential specifications: each call runs to completion.                *)
(***************************************************************************)
Create == \E o \in Owners, t \in Types, h \in Handles, ca \in BOOLEAN :
              CreateObject(o, t, h, ca)
DestroySilently == \E o \in Owners, t \in Types, h \in Handles :
              DestroyObjectSilently(o, t, h)
RecordDestroy == \E o \in Owners, t \in Types, h \in Handles :
              RecordDestroyObject(o, t, h)
CreateSwapchainImage == \E o \in SwapchainOwners, h \in SwapchainImages :
              CreateSwapchainImageObject(o, h)
ValidateAt(sites) == \E o \in Owners, t \in Types, h \in Handles, na \in BOOLEAN,
                        site \in sites :
              ValidateObject(o, h, t, na, site)
ValidateDestroyAt(sites) == \E o \in Owners, t \in Types, h \in Handles, ca \in BOOLEAN,
                        site \in sites :
              ValidateDestroyObject(o, h, t, ca, site)

NextCore == Create \/ DestroySilently \/ RecordDestroy \/ CreateSwapchainImage

\* all five operations, the validators called from one call site each
Next ==
    \/ NextCore
    \/ ValidateAt({ <<"VUID-parameter", "VUID-parent">> })
    \/ ValidateDestroyAt({ <<"VUID-custom", "VUID-default">> })

Spec == Init /\ [][Next]_vars

\* the registry operations alone
SpecCore == Init /\ [][NextCore]_vars

\* the registry operations and ValidateObject from every call site
SpecUse == Init /\ [][NextCore \/ ValidateAt(UseSites)]_vars

\* the registry operations and ValidateDestroyObject from every call site
SpecDestroy == Init /\ [][NextCore \/ ValidateDestroyAt(DestroySites)]_vars

\* the registry operations, with the call history of one handle
Probes == { << "D1", kVulkanObjectTypeImage, 1 >>,
            << "D2", kVulkanObjectTypeSurfaceKHR, VK_NULL_HANDLE >> }
InitLife == InitRegistry /\ probe \in Probes
SpecLife == InitLife /\ [][NextCore]_vars

\* the registry operations and device teardown, with the call history of one
\* handle
DestroyDevice == \E o \in Owners, error_code \in TeardownSites :
              Teardown(o, error_code)
SpecTeardown == InitLife /\ [][NextCore \/ DestroyDevice]_vars

(***************************************************************************)
(* Concurrent specification.  Threads of the application call into the     *)
(* layer; every entry point holds the process-wide lock from before its    *)
(* first access to the tracking state until after its last.  Inside the    *)
(* lock the code runs one statement at a time.  The calls are on the       *)
(* image category and the one non-null handle.                             *)
(***************************************************************************)
ConcType == kVulkanObjectTypeImage
ConcHandle == CHOOSE h \in Handles : h # VK_NULL_HANDLE
ConcOps == {"CreateObject", "RecordDestroyObject", "ValidateObject",
            "ValidateDestroyObject", "DestroyDevice", "CreateDevice"}

\* the first statement of each entry point
FirstPc(op) ==
    CASE op = "CreateObject" -> "c_count"
      [] op = "RecordDestroyObject" -> "r_find"
      [] op = "ValidateObject" -> "v_find"
      [] op = "ValidateDestroyObject" -> "vd_find"
      [] op = "DestroyDevice" -> "d_teardown"
      [] op = "CreateDevice" -> "n_create"

Busy(th) == thread[th].pc # "idle" /\ thread[th].pc # "returned"

\* a thread calls an entry point.  vkDestroyDevice is externally synchronized:
\* it does not overlap any other call on the same device.
StartCall(th, op, o, ca) ==
    /\ ~aborted
    /\ thread[th].pc = "idle"
    /\ IF op = "CreateDevice" THEN o \notin layer_data_map ELSE o \in layer_data_map
    /\ \A u \in Threads \ {th} :
          (Busy(u) /\ thread[u].owner = o) =>
              /\ op \notin {"DestroyDevice", "CreateDevice"}
              /\ thread[u].op \notin {"DestroyDevice", "CreateDevice"}
    /\ thread' = [thread EXCEPT ![th] =
                     [pc |-> "lock", op |-> op, owner |-> o, handle |-> ConcHandle,
                      custom_allocator |-> ca, todo |-> {}, found |-> FALSE]]
    /\ UNCHANGED << registry, object_track_index, aborted, callVars, probe, hist,
                    global_lock >>

\* a teardown that enters without waiting for the lock
MayEnter_TeardownUnlocked(th) ==
    global_lock = "free" \/ thread[th].op = "DestroyDevice"

\* std::lock_guard<std::mutex> lock(global_lock) can be constructed
MayEnter(th) == global_lock = "free"

Lock(th) ==
    /\ ~aborted
    /\ thread[th].pc = "lock"
    /\ MayEnter(th)
    /\ global_lock' = th
    /\ thread' = [thread EXCEPT ![th].pc = FirstPc(thread[th].op)]
    /\ UNCHANGED << registry, object_track_index, aborted, callVars, probe, hist >>

\* the lock_guard goes out of scope; the entry point returns, or, after
\* ValidateDestroyObject, is between its validation and its record
Unlock(th) ==
    /\ ~aborted
    /\ thread[th].pc = "unlock"
    /\ global_lock' = IF global_lock = th THEN "free" ELSE global_lock
    /\ thread' = [thread EXCEPT ![th].pc =
                     IF thread[th].op = "ValidateDestroyObject" THEN "validated"
                     ELSE "returned"]
    /\ UNCHANGED << registry, object_track_index, aborted, callVars, probe, hist >>

\* the application goes on to its next call
Return(th) ==
    /\ ~aborted
    /\ thread[th].pc = "returned"
    /\ thread' = [thread EXCEPT ![th] = Idle]
    /\ UNCHANGED << registry, object_track_index, aborted, callVars, probe, hist,
                    global_lock >>

Goto(th, pc) == thread' = [thread EXCEPT ![th].pc = pc]

\* CreateObject, line 155
CreateCount(th) ==
    LET o == thread[th].owner  h == thread[th].handle IN
    /\ ~aborted
    /\ thread[th].pc = "c_count"
    /\ IF ~Has(object_map[o][ConcType], h)
       THEN object_track_index < MaxIndex /\ Goto(th, "c_log")
       ELSE Goto(th, "unlock")
    /\ UNCHANGED << registry, object_track_index, aborted, callVars, probe, hist,
                    global_lock >>

\* CreateObject, lines 156-159
CreateLog(th) ==
    /\ ~aborted
    /\ thread[th].pc = "c_log"
    /\ object_track_index' = object_track_index + 1
    /\ Goto(th, "c_insert")
    /\ UNCHANGED << registry, aborted, callVars, probe, hist, global_lock >>

\* CreateObject, lines 161-166
CreateStore(th) ==
    LET o == thread[th].owner  h == thread[th].handle IN
    /\ ~aborted
    /\ thread[th].pc = "c_insert"
    /\ object_map' = [object_map EXCEPT ![o][ConcType] =
                         Put(@, h, NewObjNode(ConcType, h, thread[th].custom_allocator))]
    /\ Goto(th, "c_num")
    /\ UNCHANGED << layer_data_map, swapchainImageMap, num_objects, num_total_objects,
                    object_track_index, aborted, callVars, probe, hist, global_lock >>

\* a CreateObject without its line 167
CreateIncNum_Missing(th) ==
    /\ ~aborted
    /\ thread[th].pc = "c_num"
    /\ Goto(th, "c_total")
    /\ UNCHANGED << registry, object_track_index, aborted, callVars, probe, hist,
                    global_lock >>

\* CreateObject, line 167
CreateIncNum(th) ==
    /\ ~aborted
    /\ thread[th].pc = "c_num"
    /\ num_objects' = [num_objects EXCEPT ![thread[th].owner][ConcType] = @ + 1]
    /\ Goto(th, "c_total")
    /\ UNCHANGED << layer_data_map, object_map, swapchainImageMap, num_total_objects,
                    object_track_index, aborted, callVars, probe, hist, global_lock >>

\* CreateObject, line 168
CreateIncTotal(th) ==
    /\ ~aborted
    /\ thread[th].pc = "c_total"
    /\ num_total_objects' = [num_total_objects EXCEPT ![thread[th].owner] = @ + 1]
    /\ Goto(th, "unlock")
    /\ UNCHANGED << layer_data_map, object_map, swapchainImageMap, num_objects,
                    object_track_index, aborted, callVars, probe, hist, global_lock >>

\* ValidateDestroyObject, lines 205-207: found is whether the record was there
ValidateDestroyFind(th) ==
    LET o == thread[th].owner  h == thread[th].handle IN
    /\ ~aborted
    /\ thread[th].pc = "vd_find"
    /\ thread' = [thread EXCEPT ![th].pc = "unlock",
                                ![th].found = (h # VK_NULL_HANDLE
                                               /\ Has(object_map[o][ConcType], h))]
    /\ UNCHANGED << registry, object_track_index, aborted, callVars, probe, hist,
                    global_lock >>

\* the destroy protocol after the validation: when it asked to skip (which
\* takes a diagnostic, so a record that was found) the entry point returns;
\* otherwise the object is destroyed and the entry point takes the lock again
\* for RecordDestroyObject
AfterValidateDestroy(th) ==
    /\ ~aborted
    /\ thread[th].pc = "validated"
    /\ \E skip \in IF thread[th].found THEN BOOLEAN ELSE {FALSE} :
          thread' = [thread EXCEPT ![th].pc = IF skip THEN "returned" ELSE "lock",
                                   ![th].op = IF skip THEN @ ELSE "RecordDestroyObject"]
    /\ UNCHANGED << registry, object_track_index, aborted, callVars, probe, hist,
                    global_lock >>

\* a RecordDestroyObject that does not look the handle up
RecordFind_NoLookup(th) ==
    /\ ~aborted
    /\ thread[th].pc = "r_find"
    /\ Goto(th, "s_find")
    /\ UNCHANGED << registry, object_track_index, aborted, callVars, probe, hist,
                    global_lock >>

\* RecordDestroyObject, lines 241-243
RecordFind(th) ==
    LET o == thread[th].owner  h == thread[th].handle IN
    /\ ~aborted
    /\ thread[th].pc = "r_find"
    /\ IF h # VK_NULL_HANDLE /\ Has(object_map[o][ConcType], h)
       THEN Goto(th, "s_find")
       ELSE Goto(th, "unlock")
    /\ UNCHANGED << registry, object_track_index, aborted, callVars, probe, hist,
                    global_lock >>

\* DestroyObjectSilently, lines 176-183
SilentFind(th) ==
    LET o == thread[th].owner  h == thread[th].handle IN
    /\ ~aborted
    /\ thread[th].pc = "s_find"
    /\ IF h # VK_NULL_HANDLE /\ Has(object_map[o][ConcType], h) /\ num_total_objects[o] > 0
       THEN aborted' = FALSE /\ Goto(th, "s_total")
       ELSE aborted' = TRUE /\ UNCHANGED thread
    /\ UNCHANGED << registry, object_track_index, callVars, probe, hist, global_lock >>

\* DestroyObjectSilently, lines 185-186
SilentDecTotal(th) ==
    LET o == thread[th].owner IN
    /\ ~aborted
    /\ thread[th].pc = "s_total"
    /\ num_total_objects' = [num_total_objects EXCEPT ![o] = @ - 1]
    /\ IF num_objects[o][ConcType] > 0
       THEN aborted' = FALSE /\ Goto(th, "s_num")
       ELSE aborted' = TRUE /\ UNCHANGED thread
    /\ UNCHANGED << layer_data_map, object_map, swapchainImageMap, num_objects,
                    object_track_index, callVars, probe, hist, global_lock >>

\* DestroyObjectSilently, line 188
SilentDecNum(th) ==
    /\ ~aborted
    /\ thread[th].pc = "s_num"
    /\ num_objects' = [num_objects EXCEPT ![thread[th].owner][ConcType] = @ - 1]
    /\ Goto(th, "s_erase")
    /\ UNCHANGED << layer_data_map, object_map, swapchainImageMap, num_total_objects,
                    object_track_index, aborted, callVars, probe, hist, global_lock >>

\* DestroyObjectSilently, lines 190-191
SilentErase(th) ==
    /\ ~aborted
    /\ thread[th].pc = "s_erase"
    /\ object_map' = [object_map EXCEPT ![thread[th].owner][ConcType] =
                         Erase(@, thread[th].handle)]
    /\ Goto(th, "unlock")
    /\ UNCHANGED << layer_data_map, swapchainImageMap, num_objects, num_total_objects,
                    object_track_index, aborted, callVars, probe, hist, global_lock >>

\* ValidateObject, line 88
ValidateFind(th) ==
    LET o == thread[th].owner  h == thread[th].handle IN
    /\ ~aborted
    /\ thread[th].pc = "v_find"
    /\ IF Has(object_map[o][ConcType], h)
       THEN Goto(th, "unlock")
       ELSE Goto(th, "v_alias")
    /\ UNCHANGED << registry, object_track_index, aborted, callVars, probe, hist,
                    global_lock >>

\* ValidateObject, lines 90-93: the loop starts at layer_data_map.begin()
ValidateAlias(th) ==
    LET o == thread[th].owner  h == thread[th].handle IN
    /\ ~aborted
    /\ thread[th].pc = "v_alias"
    /\ IF h \in swapchainImageMap[o]
       THEN Goto(th, "unlock")
       ELSE thread' = [thread EXCEPT ![th].pc = "v_scan", ![th].todo = layer_data_map]
    /\ UNCHANGED << registry, object_track_index, aborted, callVars, probe, hist,
                    global_lock >>

\* ValidateObject, lines 93-115: one iteration of the loop over layer_data_map,
\* in the map's own order; reading a layer_data that has been freed is
\* undefined and may find anything
ValidateScan(th) ==
    LET o == thread[th].owner  h == thread[th].handle IN
    /\ ~aborted
    /\ thread[th].pc = "v_scan"
    /\ IF thread[th].todo = {}
       THEN Goto(th, "unlock")
       ELSE \E other \in thread[th].todo :
              \E seen \in IF other = o THEN {FALSE}
                          ELSE IF other \in layer_data_map
                          THEN { Has(object_map[other][ConcType], h)
                                 \/ h \in swapchainImageMap[other] }
                          ELSE BOOLEAN :
                 thread' = [thread EXCEPT ![th].pc = IF seen THEN "unlock" ELSE "v_scan",
                                          ![th].todo = @ \ {other},
                                          ![th].found = seen]
    /\ UNCHANGED << registry, object_track_index, aborted, callVars, probe, hist,
                    global_lock >>

\* device teardown: the undestroyed objects are reported and destroyed, then
\* the device's layer_data leaves layer_data_map
DestroyDeviceTeardown(th) ==
    LET o == thread[th].owner IN
    /\ ~aborted
    /\ thread[th].pc = "d_teardown"
    /\ object_map' = [object_map EXCEPT ![o] = [t \in Types |-> EmptyMap]]
    /\ num_objects' = [num_objects EXCEPT ![o] = [t \in Types |-> 0]]
    /\ num_total_objects' = [num_total_objects EXCEPT ![o] = 0]
    /\ swapchainImageMap' = [swapchainImageMap EXCEPT ![o] = {}]
    /\ layer_data_map' = layer_data_map \ {o}
    /\ Goto(th, "unlock")
    /\ UNCHANGED << object_track_index, aborted, callVars, probe, hist, global_lock >>

\* device creation: a fresh layer_data enters layer_data_map
CreateDeviceRegister(th) ==
    /\ ~aborted
    /\ thread[th].pc = "n_create"
    /\ layer_data_map' = layer_data_map \cup {thread[th].owner}
    /\ Goto(th, "unlock")
    /\ UNCHANGED << object_map, swapchainImageMap, num_objects, num_total_objects,
                    object_track_index, aborted, callVars, probe, hist, global_lock >>

NextConc ==
    \E th \in Threads :
        \/ \E op \in ConcOps, o \in Owners, ca \in BOOLEAN :
              (ca => op = "CreateObject") /\ StartCall(th, op, o, ca)
        \/ Lock(th)
        \/ Unlock(th)
        \/ Return(th)
        \/ CreateCount(th)
        \/ CreateLog(th)
        \/ CreateStore(th)
        \/ CreateIncNum(th)
        \/ CreateIncTotal(th)
        \/ ValidateDestroyFind(th)
        \/ AfterValidateDestroy(th)
        \/ RecordFind(th)
        \/ SilentFind(th)
        \/ SilentDecTotal(th)
        \/ SilentDecNum(th)
        \/ SilentErase(th)
        \/ ValidateFind(th)
        \/ ValidateAlias(th)
        \/ ValidateScan(th)
        \/ DestroyDeviceTeardown(th)
        \/ CreateDeviceRegister(th)

SpecConc == Init /\ [][NextConc]_vars

(***************************************************************************)
(* Properties of the registry and its counters.                            *)
(***************************************************************************)
RECURSIVE SumOfCounts(_, _)
SumOfCounts(o, S) ==
    IF S = {} THEN 0
    ELSE LET t == CHOOSE x \in S : TRUE IN num_objects[o][t] + SumOfCounts(o, S \ {t})

Present(o, t, h) == h \in DOMAIN object_map[o][t]

CustomRecorded(o, t, h) == "CUSTOM_ALLOCATOR" \in object_map[o][t][h].status

ErrorCodes(msgs) ==
    LET errs == SelectSeq(msgs, LAMBDA m : m.severity = "ERROR")
    IN [i \in 1..Len(errs) |-> errs[i].code]

\* C1: in every reachable state, for every owner, num_total_objects is the sum
\* of num_objects over the categories, and num_objects[category] is the number
\* of entries of object_map[category].
C1_CountersMatchRegistry ==
    \A o \in Owners :
        /\ num_total_objects[o] = SumOfCounts(o, Types)
        /\ \A t \in Types : num_objects[o][t] = Cardinality(DOMAIN object_map[o][t])

\* an owner that held two objects of different categories and had one of them
\* removed by DestroyObjectSilently
C1_Witness ==
    /\ last.op = "DestroyObjectSilently"
    /\ ~aborted
    /\ num_total_objects[last.owner] = 1
    /\ num_objects[last.owner][last.object_type] = 0
    /\ object_track_index = 2

\* C2 (as amended): the handle is in the registry exactly when the most recent
\* call among its Create calls and its Destroy calls with a non-null handle was
\* a Create; duplicate Creates and Destroys of an absent or null handle change
\* nothing.
C2_PresentIffLastEffectiveCreate ==
    Present(probe[1], probe[2], probe[3]) <=> (hist.lastEffective = "Create")

\* a handle created after a Destroy call that found it absent
C2_Witness ==
    /\ Present(probe[1], probe[2], probe[3])
    /\ hist.destroys = 1
    /\ hist.creates = 1
    /\ last.op = "CreateObject"

\* C2 (as stated), for a non-null handle: the handle is in the registry exactly
\* when the Creates since the last full removal (duplicates not counted)
\* outnumber the Destroys.
C2_Original_CreatesOutnumberDestroys ==
    probe[3] # VK_NULL_HANDLE =>
        (Present(probe[1], probe[2], probe[3]) <=> (hist.creates > hist.destroys))

\* C3: a CreateObject call on an absent (category, handle) adds exactly that
\* record, custom iff the allocator argument is non-null; on a present one it
\* changes neither the registry, the counters, the recorded mode nor the
\* sequence number, and emits nothing.
C3_CreateInsertsOnceWithMode ==
    [][ last'.op = "CreateObject" =>
        LET o == last'.owner
            t == last'.object_type
            h == last'.handle
        IN IF ~Present(o, t, h)
           THEN /\ DOMAIN object_map'[o][t] = DOMAIN object_map[o][t] \cup {h}
                /\ ("CUSTOM_ALLOCATOR" \in object_map'[o][t][h].status)
                      <=> last'.custom_allocator
                /\ \A x \in DOMAIN object_map[o][t] :
                      object_map'[o][t][x] = object_map[o][t][x]
                /\ num_objects'[o][t] = num_objects[o][t] + 1
                /\ num_total_objects'[o] = num_total_objects[o] + 1
           ELSE /\ object_map' = object_map
                /\ num_objects' = num_objects
                /\ num_total_objects' = num_total_objects
                /\ object_track_index' = object_track_index
                /\ emitted' = <<>>
      ]_vars

\* a second Create with the other allocator mode that left the record as it was
C3_Witness ==
    /\ last.op = "CreateObject"
    /\ emitted = <<>>
    /\ Present(last.owner, last.object_type, last.handle)
    /\ CustomRecorded(last.owner, last.object_type, last.handle)
    /\ ~last.custom_allocator

\* C4: a ValidateObject or ValidateDestroyObject call leaves the owner set, the
\* registries, the swapchain image maps and all counters as they were.
C4_ValidatorsDoNotMutate ==
    [][ last'.op \in {"ValidateObject", "ValidateDestroyObject"} =>
        registry' = registry ]_vars

\* a ValidateDestroyObject call that emitted an allocator mismatch
C4_Witness ==
    /\ last.op = "ValidateDestroyObject"
    /\ Len(emitted) = 2
    /\ ret
    /\ num_total_objects[last.owner] = 1

(***************************************************************************)
(* Properties of ValidateObject.                                           *)
(***************************************************************************)
KnownNowhere(t, h) ==
    \A o \in Owners : ~Present(o, t, h) /\ h \notin swapchainImageMap[o]

UnknownCase ==
    /\ last.op = "ValidateObject"
    /\ last.handle # VK_NULL_HANDLE
    /\ KnownNowhere(last.object_type, last.handle)

\* C5 (as amended): for a non-null handle known nowhere, ValidateObject emits
\* exactly one error, carrying the call site's invalid_handle_code, and
\* returns what log_msg returned for it.
C5_UnknownObjectReported ==
    UnknownCase =>
        /\ Len(emitted) = 1
        /\ emitted[1].severity = "ERROR"
        /\ emitted[1].code = last.code1
        /\ emitted[1].text = "Invalid Object"
        /\ emitted[1].handle = last.handle
        /\ ret = last.sink[1]

\* an unknown handle reported with the call site's code, the sink not asking
\* to skip
C5_Witness ==
    /\ UnknownCase
    /\ Len(emitted) = 1
    /\ emitted[1].code = "VUID-parameter"
    /\ ~ret

\* C5 (as stated): the call returns "invalid" and the one error carries the
\* unknown-object code.
C5_Original_ReturnsInvalidWithUnknownCode ==
    UnknownCase =>
        /\ ret
        /\ Len(emitted) = 1
        /\ emitted[1].severity = "ERROR"
        /\ emitted[1].code = kVUID_ObjectTracker_UnknownObject

\* the handle is in another owner's registry for the category, and neither in
\* the validating owner's registry nor in its swapchain image map
WrongOwnerCase ==
    /\ last.op = "ValidateObject"
    /\ ~Present(last.owner, last.object_type, last.handle)
    /\ last.handle \notin swapchainImageMap[last.owner]
    /\ \E other \in Owners \ {last.owner} :
           Present(other, last.object_type, last.handle)

\* C6 (as amended): in the wrong-owner case, unless the null handle was passed
\* with null_allowed, ValidateObject emits exactly the wrong-owner error with
\* the call site's wrong_device_code and returns what log_msg returned for it;
\* for the surface category, or when wrong_device_code is undefined, it emits
\* nothing and returns false.
C6_WrongOwnerReported ==
    (WrongOwnerCase /\ ~(last.null_allowed /\ last.handle = VK_NULL_HANDLE)) =>
        IF last.object_type = "SurfaceKHR" \/ last.code2 = "VUID_Undefined"
        THEN emitted = <<>> /\ ~ret
        ELSE /\ Len(emitted) = 1
             /\ emitted[1].severity = "ERROR"
             /\ emitted[1].code = last.code2
             /\ emitted[1].code # last.code1
             /\ emitted[1].handle = last.handle
             /\ ret = last.sink[1]

\* an image of the other device reported with the wrong-owner code
C6_Witness ==
    /\ WrongOwnerCase
    /\ last.object_type = "Image"
    /\ Len(emitted) = 1
    /\ emitted[1].code = "VUID-parent"
    /\ ret

\* C6 (as stated): "invalid" and the wrong-owner error, except for the surface
\* category, which is valid and silent.
C6_Original_WrongOwnerAlwaysInvalid ==
    WrongOwnerCase =>
        IF last.object_type = "SurfaceKHR"
        THEN emitted = <<>> /\ ~ret
        ELSE /\ ret
             /\ Len(emitted) = 1
             /\ emitted[1].severity = "ERROR"
             /\ emitted[1].code = last.code2
             /\ emitted[1].code # last.code1

\* a ValidateObject call on the null handle
NullCase == last.op = "ValidateObject" /\ last.handle = VK_NULL_HANDLE

\* the null handle is in no registry bucket of the category and in no
\* swapchain image map
NullKnownNowhere == KnownNowhere(last.object_type, VK_NULL_HANDLE)

\* C13 (as amended): with null_allowed set, ValidateObject on the null handle
\* emits nothing and returns false.  With null_allowed clear the null handle is
\* looked up like any other value: in the owner's registry (or, for an image,
\* its swapchain image map) it is accepted silently; known nowhere it gets
\* exactly one error with the call site's invalid_handle_code and the call
\* returns what log_msg returned; known to another owner only it gets the
\* wrong-owner error, or nothing for a surface or an undefined
\* wrong_device_code.
C13_NullHandleByFlagAndLookup ==
    NullCase =>
        IF last.null_allowed THEN emitted = <<>> /\ ~ret
        ELSE IF \/ Present(last.owner, last.object_type, VK_NULL_HANDLE)
                \/ /\ last.object_type = "Image"
                   /\ VK_NULL_HANDLE \in swapchainImageMap[last.owner]
        THEN emitted = <<>> /\ ~ret
        ELSE IF NullKnownNowhere
        THEN /\ Len(emitted) = 1
             /\ emitted[1].severity = "ERROR"
             /\ emitted[1].code = last.code1
             /\ emitted[1].handle = VK_NULL_HANDLE
             /\ ret = last.sink[1]
        ELSE IF last.object_type = "SurfaceKHR" \/ last.code2 = "VUID_Undefined"
        THEN emitted = <<>> /\ ~ret
        ELSE /\ Len(emitted) = 1
             /\ emitted[1].code = last.code2
             /\ emitted[1].text # "Invalid Object"
             /\ ret = last.sink[1]

\* the null handle, registered by an earlier CreateObject, accepted although
\* null_allowed is clear
C13_Witness ==
    /\ NullCase
    /\ ~last.null_allowed
    /\ Present(last.owner, last.object_type, VK_NULL_HANDLE)
    /\ emitted = <<>>
    /\ ~ret

\* C13 (as stated): the flag alone decides: set, the call is silent and valid;
\* clear, the null handle gets an invalid-handle error.
C13_Original_FlagAloneDecides ==
    NullCase =>
        IF last.null_allowed THEN emitted = <<>> /\ ~ret
        ELSE /\ Len(emitted) = 1
             /\ emitted[1].severity = "ERROR"
             /\ emitted[1].code = last.code1

\* a ValidateObject call on an image that is not in the owner's registry but
\* is in the owner's swapchain image map
AliasCase ==
    /\ last.op = "ValidateObject"
    /\ last.object_type = "Image"
    /\ ~Present(last.owner, "Image", last.handle)
    /\ last.handle \in swapchainImageMap[last.owner]

\* C16: in the alias case ValidateObject emits nothing and returns false,
\* also when another owner holds the handle; an entry of a swapchain image map
\* is counted neither in num_objects nor in num_total_objects: the call that
\* adds it leaves registry and counters alone, and the counters are the bucket
\* sizes whatever the swapchain image maps hold.
C16_AliasImageIsValidAndUncounted ==
    /\ [](AliasCase => (emitted = <<>> /\ ~ret))
    /\ [](\A o \in Owners :
             /\ num_objects[o]["Image"] = Cardinality(DOMAIN object_map[o]["Image"])
             /\ num_total_objects[o] =
                   Cardinality(DOMAIN object_map[o]["Image"])
                      + Cardinality(DOMAIN object_map[o]["SurfaceKHR"]))
    /\ [][ last'.op = "CreateSwapchainImageObject" =>
              /\ object_map' = object_map
              /\ num_objects' = num_objects
              /\ num_total_objects' = num_total_objects ]_vars

\* a swapchain image of the owner that the other owner holds in its registry,
\* validated from a call site that has a wrong-owner code
C16_Witness ==
    /\ AliasCase
    /\ \E other \in Owners \ {last.owner} : Present(other, "Image", last.handle)
    /\ last.code2 = "VUID-parent"
    /\ ~last.null_allowed
    /\ emitted = <<>>
    /\ num_total_objects[last.owner] = 0

\* C18: ValidateObject returns true only when it emitted an error (with the
\* call site's invalid-handle or wrong-owner code) and log_msg returned true
\* for it; when the handle is in the owner's registry it returns false and
\* emits nothing.
C18_SkipOnlyOnSinkVerdict ==
    last.op = "ValidateObject" =>
        /\ ret => /\ Len(emitted) = 1
                  /\ emitted[1].severity = "ERROR"
                  /\ emitted[1].code \in {last.code1, last.code2}
                  /\ last.sink[1]
        /\ Present(last.owner, last.object_type, last.handle) =>
              (~ret /\ emitted = <<>>)

\* an unknown handle reported, log_msg asking to skip the call
C18_Witness ==
    /\ UnknownCase
    /\ ret
    /\ Len(emitted) = 1
    /\ last.sink[1]
    /\ emitted[1].code = last.code1
    /\ emitted[1].code # last.code2

(***************************************************************************)
(* Properties of ValidateDestroyObject.                                    *)
(***************************************************************************)
DestroyOfAbsent ==
    /\ last.op = "ValidateDestroyObject"
    /\ last.handle # VK_NULL_HANDLE
    /\ ~Present(last.owner, last.object_type, last.handle)

\* C7 (as amended): for a non-null handle that is not in the owner's registry,
\* ValidateDestroyObject emits nothing and returns false.
C7_AbsentHandleIsSilent ==
    DestroyOfAbsent => (emitted = <<>> /\ ~ret)

\* a destroy validation of a handle that only the other device holds
C7_Witness ==
    /\ DestroyOfAbsent
    /\ emitted = <<>>
    /\ \E other \in Owners \ {last.owner} :
           Present(other, last.object_type, last.handle)

\* C7 (as stated): an invalid-object error is emitted and the call signals skip.
C7_Original_AbsentHandleReported ==
    DestroyOfAbsent =>
        /\ ret
        /\ \E i \in 1..Len(emitted) : emitted[i].severity = "ERROR"

DestroyOfLive ==
    /\ last.op = "ValidateDestroyObject"
    /\ Present(last.owner, last.object_type, last.handle)

\* the allocator-mismatch errors the claim expects of the call
ExpectedMismatch ==
    LET created_custom == CustomRecorded(last.owner, last.object_type, last.handle)
    IN IF created_custom /\ ~last.custom_allocator /\ last.code1 # "VUID_Undefined"
       THEN << last.code1 >>
       ELSE IF ~created_custom /\ last.custom_allocator /\ last.code2 # "VUID_Undefined"
       THEN << last.code2 >>
       ELSE <<>>

\* C8 (as amended): on a live non-null handle the errors ValidateDestroyObject
\* emits are: the expected-custom code when created custom and destroyed
\* default, the expected-default code when created default and destroyed
\* custom, each unless that code is undefined, and none otherwise; on a live
\* null handle it emits nothing.
C8_MismatchReportedPerDirection ==
    DestroyOfLive =>
        IF last.handle # VK_NULL_HANDLE
        THEN ErrorCodes(emitted) = ExpectedMismatch
        ELSE emitted = <<>>

\* created with a custom allocator, destroyed without one
C8_Witness ==
    /\ DestroyOfLive
    /\ last.handle # VK_NULL_HANDLE
    /\ ErrorCodes(emitted) = << "VUID-custom" >>
    /\ ~last.custom_allocator

\* C8 (as stated): the same for every live handle.
C8_Original_MismatchOnEveryLiveHandle ==
    DestroyOfLive => ErrorCodes(emitted) = ExpectedMismatch

(***************************************************************************)
(* Properties of the removal of records.                                   *)
(***************************************************************************)
\* C12: DestroyObjectSilently called with the null handle, or with a
\* (category, handle) that is not in the owner's registry, fails an assertion
\* and changes neither the registry nor the counters; nothing runs after a
\* failed assertion; and no counter is ever below zero.
C12_MissingRecordIsFatal ==
    /\ [](\A o \in Owners :
             /\ num_total_objects[o] >= 0
             /\ \A t \in Types : num_objects[o][t] >= 0)
    /\ [][ ~aborted ]_vars
    /\ [][ ( /\ last'.op = "DestroyObjectSilently"
             /\ \/ last'.handle = VK_NULL_HANDLE
                \/ ~Present(last'.owner, last'.object_type, last'.handle) )
           => (aborted' /\ registry' = registry) ]_vars

\* DestroyObjectSilently of the null handle while a record for the null handle
\* is in the registry
C12_Witness ==
    /\ last.op = "DestroyObjectSilently"
    /\ aborted
    /\ last.handle = VK_NULL_HANDLE
    /\ Present(last.owner, last.object_type, VK_NULL_HANDLE)
    /\ num_total_objects[last.owner] = 1

\* C14: RecordDestroyObject and DestroyObjectSilently emit nothing; a
\* DestroyObjectSilently that does not abort leaves the handle out of the
\* registry and both counters one lower; and a teardown reports only records
\* that are in the registry, so none for a handle that a destroy removed and
\* that was not created again.
C14_DestroyIsSilent ==
    [][ /\ last'.op \in {"RecordDestroyObject", "DestroyObjectSilently"} =>
              emitted' = <<>>
        /\ (last'.op = "DestroyObjectSilently" /\ ~aborted') =>
              /\ ~Has(object_map'[last'.owner][last'.object_type], last'.handle)
              /\ num_objects'[last'.owner][last'.object_type]
                    = num_objects[last'.owner][last'.object_type] - 1
              /\ num_total_objects'[last'.owner] = num_total_objects[last'.owner] - 1
        /\ last'.op = "DestroyDevice" =>
              /\ \A i \in 1..Len(emitted') :
                    Present(last'.owner, emitted'[i].object_type, emitted'[i].handle)
              /\ ( /\ probe[1] = last'.owner
                   /\ hist.removedBy \in {"RecordDestroyObject", "DestroyObjectSilently"} )
                 => \A i \in 1..Len(emitted') :
                       << emitted'[i].object_type, emitted'[i].handle >>
                          # << probe[2], probe[3] >>
      ]_vars

\* the teardown of an owner after one of its two objects was removed by
\* DestroyObjectSilently: the other object is reported, the removed one is not
C14_Witness ==
    /\ last.op = "DestroyDevice"
    /\ probe[1] = last.owner
    /\ hist.removedBy = "DestroyObjectSilently"
    /\ Len(emitted) = 1
    /\ << emitted[1].object_type, emitted[1].handle >> # << probe[2], probe[3] >>

\* C17: RecordDestroyObject called with the null handle, or with a
\* (category, handle) that is not in the owner's registry, does not abort and
\* leaves owner set, registries, swapchain image maps and counters as they
\* were; this is the case of a second RecordDestroyObject on a handle.
C17_RecordDestroyOfMissingIsNoOp ==
    [][ ( /\ last'.op = "RecordDestroyObject"
          /\ \/ last'.handle = VK_NULL_HANDLE
             \/ ~Present(last'.owner, last'.object_type, last'.handle) )
        => (~aborted' /\ registry' = registry) ]_vars

\* a RecordDestroyObject on a non-null handle that an earlier
\* RecordDestroyObject had removed and that was not created again
C17_Witness ==
    /\ last.op = "RecordDestroyObject"
    /\ << last.owner, last.object_type, last.handle >> = probe
    /\ last.handle # VK_NULL_HANDLE
    /\ hist.removedBy = "RecordDestroyObject"
    /\ hist.destroys = 1
    /\ ~aborted
    /\ ~Present(last.owner, last.object_type, last.handle)

(***************************************************************************)
(* Properties of the CREATE sequence numbers.                              *)
(***************************************************************************)
\* C15: object_track_index never decreases and changes only when CreateObject
\* inserts a record; such a call emits exactly one informational CREATE
\* diagnostic, whose number is at least the counter's value before the call
\* and below its value after it.  The counter is thus above every number
\* emitted so far, in any owner, and each new number is above all earlier ones.
C15_CreateSequenceNumbers ==
    [][ /\ object_track_index' >= object_track_index
        /\ IF /\ last'.op = "CreateObject"
              /\ ~Present(last'.owner, last'.object_type, last'.handle)
           THEN /\ Len(emitted') = 1
                /\ emitted'[1].severity = "INFORMATION"
                /\ emitted'[1].text = "CREATE"
                /\ emitted'[1].nums[1] >= object_track_index
                /\ emitted'[1].nums[1] < object_track_index'
           ELSE /\ object_track_index' = object_track_index
                /\ last'.op = "CreateObject" => emitted' = <<>>
      ]_vars

\* the second insertion, in another owner than the first, numbered 1
C15_Witness ==
    /\ last.op = "CreateObject"
    /\ Len(emitted) = 1
    /\ emitted[1].nums[1] = 1
    /\ object_track_index = 2
    /\ \A o \in Owners : num_total_objects[o] = 1

(***************************************************************************)
(* Properties of the separation of owners.                                 *)
(***************************************************************************)
\* C20: a CreateObject, RecordDestroyObject or DestroyObjectSilently call on
\* an owner leaves the bucket maps, the swapchain image map and the counters
\* of every other owner as they were, and the owner set unchanged.
C20_OwnerIsolation ==
    [][ last'.op \in {"CreateObject", "RecordDestroyObject", "DestroyObjectSilently"} =>
          /\ layer_data_map' = layer_data_map
          /\ \A b \in Owners \ {last'.owner} :
                /\ object_map'[b] = object_map[b]
                /\ swapchainImageMap'[b] = swapchainImageMap[b]
                /\ num_objects'[b] = num_objects[b]
                /\ num_total_objects'[b] = num_total_objects[b]
      ]_vars

\* DestroyObjectSilently has removed a handle from one owner while the other
\* owner holds a record of the same category and handle value
C20_Witness ==
    /\ last.op = "DestroyObjectSilently"
    /\ ~aborted
    /\ ~Present(last.owner, last.object_type, last.handle)
    /\ num_total_objects[last.owner] = 0
    /\ \E b \in Owners \ {last.owner} :
          /\ Present(b, last.object_type, last.handle)
          /\ num_total_objects[b] = 1

(***************************************************************************)
(* Properties of device teardown.                                          *)
(***************************************************************************)
RegistryEmpty(o) ==
    /\ \A t \in Types : DOMAIN object_map[o][t] = {} /\ num_objects[o][t] = 0
    /\ num_total_objects[o] = 0

LeakReported(msgs, t) ==
    \E i \in 1..Len(msgs) :
        /\ msgs[i].severity = "ERROR"
        /\ msgs[i].object_type = t
        /\ msgs[i].text = "has not been destroyed"

\* C11: a teardown of an owner emits at least one leak diagnostic for every
\* category in which the owner holds a live object, leaves every bucket of the
\* owner empty and all its counters zero, and removes the owner from
\* layer_data_map; an owner that is not in layer_data_map has an empty
\* registry and zero counters.
C11_TeardownReportsAndEmpties ==
    /\ [](\A o \in Owners \ layer_data_map : RegistryEmpty(o))
    /\ [][ last'.op = "DestroyDevice" =>
             /\ \A t \in Types :
                   DOMAIN object_map[last'.owner][t] # {} => LeakReported(emitted', t)
             /\ last'.owner \notin layer_data_map'
             /\ \A t \in Types : DOMAIN object_map'[last'.owner][t] = {}
             /\ \A t \in Types : num_objects'[last'.owner][t] = 0
             /\ num_total_objects'[last'.owner] = 0
         ]_vars

\* the teardown of an owner that held one object in each of two categories,
\* while the other owner is still registered
C11_Witness ==
    /\ last.op = "DestroyDevice"
    /\ Len(emitted) = 2
    /\ emitted[1].object_type # emitted[2].object_type
    /\ last.owner \notin layer_data_map
    /\ layer_data_map # {}
    /\ RegistryEmpty(last.owner)

(***************************************************************************)
(* Properties of the concurrent specification.                             *)
(***************************************************************************)
InsidePcs == {"c_count", "c_log", "c_insert", "c_num", "c_total", "r_find", "s_find",
              "s_total", "s_num", "s_erase", "v_find", "v_alias", "v_scan", "vd_find",
              "d_teardown", "n_create", "unlock"}

\* where a thread that holds the lock has not yet written, or has finished
BoundaryPcs == {"c_count", "r_find", "v_find", "vd_find", "d_teardown", "n_create",
                "unlock"}

CountersAgree ==
    \A o \in Owners :
        /\ num_total_objects[o] = SumOfCounts(o, Types)
        /\ \A t \in Types : num_objects[o][t] = Cardinality(DOMAIN object_map[o][t])

\* C9: a thread is inside an entry point only while it holds the lock; whenever
\* the lock is free or its holder is at the start or the end of its call, the
\* counters agree with the registry; and a Create that has found the handle
\* absent still finds it absent when it stores the record.
C9_CreateDestroyAtomicUnderLock ==
    /\ \A th \in Threads : thread[th].pc \in InsidePcs => global_lock = th
    /\ (global_lock = "free" \/ thread[global_lock].pc \in BoundaryPcs) => CountersAgree
    /\ \A th \in Threads :
          thread[th].pc \in {"c_log", "c_insert"} =>
              ~Present(thread[th].owner, ConcType, thread[th].handle)

\* one thread has stored the record and not yet counted it, while another
\* thread waits for the lock to create the same handle
C9_Witness ==
    \E a \in Threads, b \in Threads :
        /\ thread[a].pc = "c_num"
        /\ thread[b].pc = "lock"
        /\ thread[b].op = "CreateObject"
        /\ thread[b].owner = thread[a].owner
        /\ num_objects[thread[a].owner][ConcType] = 0
        /\ Present(thread[a].owner, ConcType, thread[a].handle)

\* C10: while a thread is inside ValidateObject no other thread is tearing a
\* device down, and every layer_data the scan has still to visit is in
\* layer_data_map.
C10_ScanSeesOnlyRegisteredOwners ==
    \A th \in Threads :
        /\ thread[th].pc = "v_scan" => thread[th].todo \subseteq layer_data_map
        /\ thread[th].pc \in {"v_find", "v_alias", "v_scan"} =>
              \A u \in Threads : thread[u].pc # "d_teardown"

\* a scan that has the other device still to visit while another thread waits
\* for the lock to tear that device down
C10_Witness ==
    \E a \in Threads, b \in Threads :
        /\ thread[a].pc = "v_scan"
        /\ thread[b].pc = "lock"
        /\ thread[b].op = "DestroyDevice"
        /\ thread[b].owner # thread[a].owner
        /\ thread[b].owner \in thread[a].todo

\* C19: with every call under the process-wide lock, two threads that both
\* validated the destruction of the same live handle and both go on to
\* RecordDestroyObject fail no assertion; only the thread that holds the lock
\* and found the record is inside DestroyObjectSilently, the record is there
\* until that thread erases it, the two counters go down by one each on the
\* way, and they are never below zero.
C19_ConcurrentDestroyRemovesOnce ==
    /\ ~aborted
    /\ \A o \in Owners : num_total_objects[o] >= 0 /\ num_objects[o][ConcType] >= 0
    /\ \A th \in Threads :
          LET o == thread[th].owner
              n == Cardinality(DOMAIN object_map[o][ConcType])
          IN /\ thread[th].pc \in {"s_find", "s_total", "s_num", "s_erase"} =>
                   /\ global_lock = th
                   /\ Present(o, ConcType, thread[th].handle)
             /\ thread[th].pc \in {"s_find", "s_total"} =>
                   (num_total_objects[o] = n /\ num_objects[o][ConcType] = n)
             /\ thread[th].pc = "s_num" =>
                   (num_total_objects[o] = n - 1 /\ num_objects[o][ConcType] = n)
             /\ thread[th].pc = "s_erase" =>
                   (num_total_objects[o] = n - 1 /\ num_objects[o][ConcType] = n - 1)
             /\ (thread[th].pc = "unlock" /\ thread[th].op = "RecordDestroyObject") =>
                   /\ ~Present(o, ConcType, thread[th].handle)
                   /\ num_total_objects[o] = 0
                   /\ num_objects[o][ConcType] = 0

\* both threads found the record in ValidateDestroyObject; one has removed it
\* and returned, the other has then found nothing to remove
C19_Witness ==
    \E a \in Threads, b \in Threads :
        /\ a # b
        /\ thread[a].op = "RecordDestroyObject" /\ thread[a].found
        /\ thread[b].op = "RecordDestroyObject" /\ thread[b].found
        /\ thread[a].owner = thread[b].owner
        /\ thread[a].pc = "returned"
        /\ thread[b].pc = "unlock"
        /\ ~Present(thread[b].owner, ConcType, ConcHandle)
        /\ ~aborted

====
